---------------------------- MODULE Spec2Model ----------------------------
(***************************************************************************)
(* A model of the travis worker daemon: runWorker (cmd/travis-worker), the *)
(* processor pool and the per-job processor it drives, and the GCE         *)
(* backend (Provider.Start, Instance.UploadScript / RunScript / Stop).     *)
(*                                                                         *)
(* Strings are sequences of characters, a character is a natural number,   *)
(* and string order is Go's: bytewise lexicographic.  An image name is     *)
(* written without its constant "travis-ci-" prefix.                       *)
(***************************************************************************)
EXTENDS Naturals, Sequences, FiniteSets

(* ------------------------------ bounds -------------------------------- *)
\* longest image name (after "travis-ci-") in the image catalogue
MaxNameLen == 3
\* most images in the project's image catalogue
MaxImages == 2
\* number of processors the pool runs (POOL_SIZE)
PoolSize == 1
\* deliveries of messages to this worker that the model follows
MaxJobs == 2
\* calls of Stop on one Instance that the model follows
MaxStops == 4
\* sub-errors in the Error of a control-plane operation
MaxSubErrors == 2

Chars == {1, 2}
Languages == {<<1>>, <<1, 2>>, <<2>>}

RECURSIVE SeqsOfLen(_)
SeqsOfLen(n) ==
  IF n = 0 THEN {<<>>}
  ELSE {Append(s, c) : s \in SeqsOfLen(n - 1), c \in Chars}

Names == UNION {SeqsOfLen(n) : n \in 1..MaxNameLen}
\* the sets of at most n names
RECURSIVE SetsUpTo(_)
SetsUpTo(n) ==
  IF n = 0 THEN {{}}
  ELSE LET smaller == SetsUpTo(n - 1)
       IN smaller \cup {S \cup {x} : S \in smaller, x \in Names}
Catalogues == SetsUpTo(MaxImages)
\* LANGUAGE_MAPPINGS as a set of <<key, value>> pairs: none, or one pair that
\* maps a language to another
Mappings == {{}} \cup {{e} : e \in {m \in Languages \X Languages : m[1] # m[2]}}
\* exit statuses the SSH server can send for the script (a uint32 on the wire)
ExitStatuses == {0, 1, 298}
\* the tasks a pool can run as processors: one more than POOL_SIZE, so that a
\* pool that runs too many is a state of the model
Procs == 1..(PoolSize + 1)
\* compute.OperationError.Errors of an operation that is DONE with an Error:
\* its sub-errors, in their order
OpErrors == {[i \in 1..n |-> i] : n \in 1..MaxSubErrors}
NoOpError == <<>>

VARIABLES
  \* ---- the image selection of Provider.Start, on its own
  images,            \* names of the images the project holds
  languageMappings,  \* the provider's mapping of the requested language, or NoMapping
  defaultLanguage,   \* the provider's default language
  reqLang,           \* startAttributes.Language
  listFails,         \* the Images.List calls (by position) that failed
  imgPc,             \* "input" | "looked" | "selected" ("off" in the worker)
  imgRes,            \* what imageForLanguage / the candidate loop returned
  \* ---- the worker process
  mainPc,            \* where runWorker is ("off" when only images are looked up)
  startupErr,        \* the startup step that failed: "none" | "dial" | "provider"
  exitCode,          \* the process's exit code, "none" while it runs
  sigBuf,            \* signals waiting in signalChan (capacity 1)
  sigG,              \* the signal goroutine: "none" | "waiting" | "done"
  shutdown,          \* the pool's consumer is draining
  shutdownCalls,     \* calls of pool.GracefulShutdown
  bus,               \* messages on the queue, not yet delivered (the broker owns
                     \* a requeued message, and its redelivery is one of these)
  proc               \* per processor: its position, its job and the job's VM

imgVars == <<images, languageMappings, defaultLanguage, reqLang, listFails,
             imgPc, imgRes>>
mainVars == <<mainPc, startupErr, exitCode>>
sigVars == <<sigBuf, sigG, shutdown, shutdownCalls>>
vars == <<imgVars, mainVars, sigVars, bus, proc>>

(* ------------------------- strings (Go order) -------------------------- *)
RECURSIVE LexLess(_, _)
LexLess(a, b) ==
  IF a = <<>> THEN b # <<>>
  ELSE IF b = <<>> THEN FALSE
  ELSE IF Head(a) # Head(b) THEN Head(a) < Head(b)
  ELSE LexLess(Tail(a), Tail(b))

LexLeq(a, b) == a = b \/ LexLess(a, b)

\* strings.HasPrefix
HasPrefix(s, p) == Len(p) <= Len(s) /\ SubSeq(s, 1, Len(p)) = p

\* the filter "name eq ^travis-ci-%s.+": the language, then at least one character
gceImagesFilter(name, language) == HasPrefix(name, language) /\ Len(name) > Len(language)

\* the Items of an Images.List response, in the order the API gives them
RECURSIVE ListItems(_)
ListItems(S) ==
  IF S = {} THEN <<>>
  ELSE LET x == CHOOSE y \in S : TRUE IN <<x>> \o ListItems(S \ {x})

\* sort.Strings: insertion of each name into an ascending sequence
RECURSIVE InsertSorted(_, _)
InsertSorted(x, s) ==
  IF s = <<>> THEN <<x>>
  ELSE IF LexLeq(x, Head(s)) THEN <<x>> \o s
  ELSE <<Head(s)>> \o InsertSorted(x, Tail(s))

RECURSIVE SortStrings(_)
SortStrings(s) ==
  IF s = <<>> THEN <<>> ELSE InsertSorted(Head(s), SortStrings(Tail(s)))

NoImage == <<>>
ImgResult(img, err) == [image |-> img, err |-> err]

\* the sorted name imageForLanguage returns: a plausible slip takes the first
PickFirstName(imageNames) == imageNames[1]

PickName(imageNames) == imageNames[Len(imageNames)]

\* GCEProvider.imageForLanguage, the List call failing or not
imageForLanguage(catalogue, language, listErr) ==
  IF listErr THEN ImgResult(NoImage, "list")
  ELSE LET items == ListItems({n \in catalogue : gceImagesFilter(n, language)})
       IN IF Len(items) = 0 THEN ImgResult(NoImage, "noimage")
          ELSE ImgResult(PickName(SortStrings(items)), "nil")

\* GCEProvider.Start, lines 369-373
HasMapping(mappings, lang) == \E e \in mappings : e[1] = lang
Mapped(mappings, lang) == (CHOOSE e \in mappings : e[1] = lang)[2]

candidateLangs(lang, mappings, default) ==
  <<lang>>
  \o (IF HasMapping(mappings, lang) THEN <<Mapped(mappings, lang)>> ELSE <<>>)
  \o <<default>>

\* GCEProvider.Start, lines 375-384: the first candidate whose lookup succeeds,
\* or the last lookup's error
RECURSIVE TryCandidates(_, _, _, _)
TryCandidates(catalogue, cands, i, fails) ==
  LET r == imageForLanguage(catalogue, cands[i], i \in fails)
  IN IF r.err = "nil" \/ i = Len(cands) THEN r
     ELSE TryCandidates(catalogue, cands, i + 1, fails)

StartSelectImage(catalogue, lang, mappings, default, fails) ==
  TryCandidates(catalogue, candidateLangs(lang, mappings, default), 1, fails)

(* ------------------------------ the worker ----------------------------- *)
\* the provider's configuration in the worker: images python-1, python-2 and
\* minimal-1, LANGUAGE_MAPPINGS py=python, DEFAULT_LANGUAGE minimal
WorkerImages == {<<1, 2, 1>>, <<1, 2, 2>>, <<2, 1>>}
WorkerMappings == {<<(<<1>>), (<<1, 2>>)>>}
WorkerDefaultLanguage == <<2>>

NoResult == [kind |-> "none"]
\* opErr is the Err of the error when that error is a *gceOpError
StartResult(inst, err) ==
  [kind |-> "start", inst |-> inst, err |-> err, opErr |-> NoOpError]
UploadResult(err) == [kind |-> "upload", err |-> err]
RunResult(completed, code, err, cause) ==
  [kind |-> "run", Completed |-> completed, ExitCode |-> code, err |-> err,
   cause |-> cause]
StopResult(err) == [kind |-> "stop", err |-> err]

\* a processor at pc with no job: the job's fields live from the pull of its
\* message to the end of the job
NoJob(pc) ==
  [pc |-> pc,
   ctxErr |-> "nil",         \* ctx.Err() of the job's context in the current phase
   ret |-> NoResult,         \* what the backend call just returned to the processor
   settle |-> <<>>,          \* the ack / nack calls made on the job's message
   inst |-> FALSE,           \* the job holds an Instance
   stopCalls |-> 0,          \* calls of Instance.Stop
   image |-> NoImage,        \* the image Start chose, until the VM is inserted
   vm |-> "none",            \* the VM: "none" | "running" | "deleting" | "deleted"
   fileExists |-> FALSE,     \* build.sh exists in the VM
   startG |-> "none",        \* Start's poll goroutine
   upG |-> "none",           \* UploadScript's goroutine
   attemptErr |-> "nil",     \* err of the attempt whose assignment is pending
   uploadErr |-> "nil",      \* the variable uploadErr
   stopG |-> "none",         \* Stop's poll goroutine
   newOpError |-> NoOpError, \* newOp.Error as Start's goroutine found it
   staleFound |-> FALSE,     \* an attempt met an existing build.sh during the call
   staleVM |-> FALSE,        \* build.sh existed when UploadScript was called
   stopped |-> FALSE,        \* an earlier Stop of this Instance returned nil
   doneBeforeBoot |-> FALSE] \* the context was done in Start before the boot was DONE

Upd(p, r) == proc' = [proc EXCEPT ![p] = r]

Settled(s, how) == [s EXCEPT !.settle = Append(@, [how |-> how, drain |-> shutdown])]

\* ---- runWorker
\* amqp.Dial, lines 43-47
runWorker_Dial ==
  /\ mainPc = "dial"
  /\ \E ok \in BOOLEAN :
       IF ok THEN /\ mainPc' = "provider"
                  /\ UNCHANGED <<startupErr, exitCode>>
       ELSE /\ mainPc' = "exited"
            /\ startupErr' = "dial"
            /\ exitCode' = 0
  /\ UNCHANGED <<imgVars, sigVars, bus, proc>>

\* backend.NewProvider, the pool and the signal goroutine, lines 51-71
runWorker_NewProvider ==
  /\ mainPc = "provider"
  /\ \E ok \in BOOLEAN :
       IF ok THEN /\ mainPc' = "pool"
                  /\ sigG' = "waiting"
                  /\ UNCHANGED <<startupErr, exitCode>>
       ELSE /\ mainPc' = "exited"
            /\ startupErr' = "provider"
            /\ exitCode' = 0
            /\ UNCHANGED sigG
  /\ UNCHANGED <<imgVars, sigBuf, shutdown, shutdownCalls, bus, proc>>

\* a worker that asks its pool for one processor more than POOL_SIZE
RunPoolSizePlusOne == PoolSize + 1

\* the number of processors runWorker asks its pool for, line 73
RunPoolSize == PoolSize

\* pool.Run(config.PoolSize, config.QueueName), line 73: the pool spawns that
\* many processors
runWorker_PoolRun ==
  /\ mainPc = "pool"
  /\ mainPc' = "run"
  /\ proc' = [p \in Procs |-> IF p <= RunPoolSize THEN NoJob("idle")
                                                 ELSE NoJob("unspawned")]
  /\ UNCHANGED <<imgVars, startupErr, exitCode, sigVars, bus>>

\* pool.Run returns when every processor has exited
runWorker_PoolReturn ==
  /\ mainPc = "run"
  /\ \A p \in Procs : proc[p].pc \in {"exited", "unspawned"}
  /\ mainPc' = "close"
  /\ UNCHANGED <<imgVars, startupErr, exitCode, sigVars, bus, proc>>

\* amqpConn.Close and the return of runWorker, lines 75-80
runWorker_Close ==
  /\ mainPc = "close"
  /\ mainPc' = "exited"
  /\ exitCode' = 0
  /\ UNCHANGED <<imgVars, startupErr, sigVars, bus, proc>>

\* an interrupt reaches signalChan (capacity 1, line 65): dropped when it is full
Signal ==
  /\ mainPc \in {"pool", "run", "close"}
  /\ sigBuf' = 1
  /\ UNCHANGED <<imgVars, mainVars, sigG, shutdown, shutdownCalls, bus, proc>>

\* pool.GracefulShutdown: the consumer stops delivering
GracefulShutdown ==
  /\ shutdown' = TRUE
  /\ shutdownCalls' = shutdownCalls + 1

\* the signal goroutine without its call of GracefulShutdown
SignalHandlerNoShutdown ==
  /\ mainPc \in {"pool", "run", "close"}
  /\ sigG = "waiting"
  /\ sigBuf = 1
  /\ sigBuf' = 0
  /\ sigG' = "done"
  /\ UNCHANGED <<imgVars, mainVars, shutdown, shutdownCalls, bus, proc>>

\* a signal goroutine that waits for the next signal after each one
SignalHandlerLoops ==
  /\ mainPc \in {"pool", "run", "close"}
  /\ sigG = "waiting"
  /\ sigBuf = 1
  /\ sigBuf' = 0
  /\ sigG' = "waiting"
  /\ GracefulShutdown
  /\ UNCHANGED <<imgVars, mainVars, bus, proc>>

\* the signal goroutine, lines 67-71
SignalHandler ==
  /\ mainPc \in {"pool", "run", "close"}
  /\ sigG = "waiting"
  /\ sigBuf = 1
  /\ sigBuf' = 0
  /\ sigG' = "done"
  /\ GracefulShutdown
  /\ UNCHANGED <<imgVars, mainVars, bus, proc>>

\* ---- the processor loop
\* a processor pulls one message
Processor_Pull(p) ==
  /\ mainPc = "run"
  /\ proc[p].pc = "idle"
  /\ ~shutdown
  /\ bus > 0
  /\ bus' = bus - 1
  /\ Upd(p, NoJob("received"))
  /\ UNCHANGED <<imgVars, mainVars, sigVars>>

\* the consumer is closed: the processor leaves its loop
Processor_Exit(p) ==
  /\ mainPc = "run"
  /\ proc[p].pc = "idle"
  /\ shutdown
  /\ Upd(p, NoJob("exited"))
  /\ UNCHANGED <<imgVars, mainVars, sigVars, bus>>

\* the end of the job: what is kept is what was done to the message and to
\* the Instance
JobEnd(s) == [NoJob("done") EXCEPT !.settle = s.settle, !.inst = s.inst,
                                   !.stopCalls = s.stopCalls, !.vm = s.vm]

\* RECEIVED: decode the message; a bad payload is rejected
Processor_Decode(p) ==
  LET s == proc[p] IN
  /\ mainPc = "run"
  /\ s.pc = "received"
  /\ \E bad \in BOOLEAN :
       IF bad THEN Upd(p, JobEnd(Settled(s, "drop")))
       ELSE Upd(p, [s EXCEPT !.pc = "start_images"])
  /\ UNCHANGED <<imgVars, mainVars, sigVars, bus>>

\* the job is over: the processor waits for the next message
Processor_Loop(p) ==
  /\ mainPc = "run"
  /\ proc[p].pc = "done"
  /\ Upd(p, NoJob("idle"))
  /\ UNCHANGED <<imgVars, mainVars, sigVars, bus>>

\* the processor calls Stop on its Instance; from here on the model no longer
\* follows UploadScript's goroutine nor the files of the VM
ToStop(s) == [s EXCEPT !.pc = "stop_delete", !.ret = NoResult,
                       !.stopCalls = @ + 1, !.upG = "none",
                       !.fileExists = FALSE, !.staleFound = FALSE,
                       !.staleVM = FALSE]

\* the processor requeues the message and calls Stop a second time
RequeueStopTwice(s) == [ToStop(Settled(s, "requeue")) EXCEPT !.stopCalls = @ + 1]

\* the processor acks the message it requeues
RequeueAckStop(s) == ToStop(Settled(Settled(s, "requeue"), "ack"))

\* REQUEUE (+stop): nack with requeue, then Stop
RequeueStop(s) == ToStop(Settled(s, "requeue"))

\* REQUEUE with no Instance to stop
RequeueDone(s) == JobEnd(Settled(s, "requeue"))

\* PROVISIONING: Start returned
Processor_AfterStart(p) ==
  LET s == proc[p] IN
  /\ mainPc = "run"
  /\ s.pc = "start_ret"
  /\ IF s.ret.inst
     THEN /\ Upd(p, [s EXCEPT !.pc = "upload_wait", !.ret = NoResult, !.inst = TRUE,
                              !.upG = "attempt", !.staleVM = s.fileExists,
                              !.doneBeforeBoot = FALSE])
     ELSE /\ Upd(p, RequeueDone(s))
  /\ UNCHANGED <<imgVars, mainVars, sigVars, bus>>

\* UPLOADING: UploadScript returned
Processor_AfterUpload(p) ==
  LET s == proc[p] IN
  /\ mainPc = "run"
  /\ s.pc = "upload_ret"
  /\ IF s.ret.err = "nil"
     THEN /\ Upd(p, [s EXCEPT !.pc = "run_connect", !.ret = NoResult,
                              !.staleVM = FALSE])
     ELSE /\ Upd(p, RequeueStop(s))
  /\ UNCHANGED <<imgVars, mainVars, sigVars, bus>>

\* RUNNING: RunScript returned; its result is the job's outcome
Processor_AfterRun(p) ==
  LET s == proc[p] IN
  /\ mainPc = "run"
  /\ s.pc = "run_ret"
  /\ IF s.ret.err = "nil"
     THEN /\ Upd(p, [s EXCEPT !.pc = "report"])
     ELSE /\ Upd(p, RequeueStop(s))
  /\ UNCHANGED <<imgVars, mainVars, sigVars, bus>>

\* REPORTING, then ACKED or REQUEUE
Processor_Report(p) ==
  LET s == proc[p] IN
  /\ mainPc = "run"
  /\ s.pc = "report"
  /\ \E ok \in BOOLEAN :
       IF ok THEN /\ Upd(p, ToStop(Settled(s, "ack")))
       ELSE /\ Upd(p, RequeueStop(s))
  /\ UNCHANGED <<imgVars, mainVars, sigVars, bus>>

\* Stop returned: its error is logged
Processor_AfterStop(p) ==
  LET s == proc[p] IN
  /\ mainPc = "run"
  /\ s.pc = "stop_ret"
  /\ Upd(p, JobEnd(s))
  /\ UNCHANGED <<imgVars, mainVars, sigVars, bus>>

InStart(s) == s.pc \in {"start_images", "start_insert", "start_wait"}
InCall(s) == InStart(s) \/ s.pc \in {"upload_wait", "run_connect", "run_blocked",
                                      "stop_delete", "stop_wait"}

\* the job's context is cancelled, or the deadline of its phase expires
CtxDone(p) ==
  LET s == proc[p] IN
  /\ mainPc = "run"
  /\ InCall(s)
  /\ s.ctxErr = "nil"
  /\ \E cause \in {"Canceled", "DeadlineExceeded"} :
       Upd(p, [s EXCEPT !.ctxErr = cause,
                        !.doneBeforeBoot =
                           InStart(s) /\ s.startG \in {"none", "poll", "send_err"}])
  /\ UNCHANGED <<imgVars, mainVars, sigVars, bus>>

(* --------------------------- the GCE backend --------------------------- *)
\* a call returns to the processor; ctxErr is the state of the context of the
\* call in progress, and the next call's context may be done from its start
Return(s, pc, res) == [s EXCEPT !.pc = pc, !.ret = res, !.ctxErr = "nil"]

\* ---- GCEProvider.Start
\* the candidate loop, lines 369-384
Start_ImageLookup(p) ==
  LET s == proc[p] IN
  /\ mainPc = "run"
  /\ s.pc = "start_images"
  /\ \E lang \in Languages, fails \in SUBSET (1..3) :
       LET r == StartSelectImage(images, lang, languageMappings, defaultLanguage, fails)
       IN IF r.err # "nil" THEN Upd(p, Return(s, "start_ret", StartResult(FALSE, r.err)))
          ELSE Upd(p, [s EXCEPT !.image = r.image, !.pc = "start_insert"])
  /\ UNCHANGED <<imgVars, mainVars, sigVars, bus>>

\* Instances.Insert and the start of the poll goroutine, lines 446-473
Start_Insert(p) ==
  LET s == proc[p] IN
  /\ mainPc = "run"
  /\ s.pc = "start_insert"
  /\ \/ Upd(p, Return([s EXCEPT !.image = NoImage], "start_ret", StartResult(FALSE, "insert")))
     \/ Upd(p, [s EXCEPT !.image = NoImage, !.vm = "running", !.startG = "poll",
                         !.pc = "start_wait"])
  /\ UNCHANGED <<imgVars, mainVars, sigVars, bus>>

\* where a turn of a poll loop leaves its goroutine, lines 457-471 and 659-673:
\* the request fails, or the operation is DONE with an Error or without one
\* (an operation that is not DONE is polled again)
PollOutcomes == {"send_err", "send_operr", "send_ok"}

\* the value a poll goroutine blocked on its send is sending
SentErr(g) == CASE g = "send_err" -> "poll" [] g = "send_operr" -> "operr" [] OTHER -> "nil"
Sending(g) == g \in PollOutcomes

\* the turn of Start's poll goroutine that ends its loop, lines 455-473; the VM
\* that has booted may already hold a build.sh
Start_Poll(p) ==
  LET s == proc[p] IN
  /\ mainPc = "run"
  /\ s.startG = "poll"
  /\ \E g \in PollOutcomes, stale \in BOOLEAN, opErr \in OpErrors \cup {NoOpError} :
       /\ g # "send_ok" => ~stale
       /\ g = "send_operr" <=> opErr # NoOpError
       /\ Upd(p, [s EXCEPT !.startG = g, !.fileExists = stale,
                           !.newOpError = opErr])
  /\ UNCHANGED <<imgVars, mainVars, sigVars, bus>>

\* a Start that returns the VM it has inserted along with the error of its boot
StartReturnsInstanceWithError(g, ctxErr, newOpError) ==
  IF g = "ctx" THEN StartResult(FALSE, ctxErr)
  ELSE IF g = "send_ok" THEN StartResult(TRUE, "nil")
  ELSE StartResult(TRUE, SentErr(g))

\* &gceOpError{Err: newOp.Error}, lines 146-148 and 465
gceOpError(newOpError) == [StartResult(FALSE, "operr") EXCEPT !.opErr = newOpError]

\* a Start whose operation error carries the first sub-error only
StartReturnsFirstSubError(g, ctxErr, newOpError) ==
  IF g = "ctx" THEN StartResult(FALSE, ctxErr)
  ELSE IF g = "send_ok" THEN StartResult(TRUE, "nil")
  ELSE IF g = "send_operr" THEN gceOpError(SubSeq(newOpError, 1, 1))
  ELSE StartResult(FALSE, SentErr(g))

\* a select whose ctx.Done() case returns the Instance
StartReturnsCtxInstance(g, ctxErr, newOpError) == StartResult(TRUE, "nil")

\* what Start returns from the case of its select that fires, lines 475-496
StartReturns(g, ctxErr, newOpError) ==
  IF g = "ctx" THEN StartResult(FALSE, ctxErr)
  ELSE IF g = "send_ok" THEN StartResult(TRUE, "nil")
  ELSE IF g = "send_operr" THEN gceOpError(newOpError)
  ELSE StartResult(FALSE, SentErr(g))

\* Start's select, lines 475-496, takes a case that is ready, any of them when
\* several are, and waits while none is: here the goroutine's send
Start_Recv(p) ==
  LET s == proc[p] IN
  /\ mainPc = "run"
  /\ s.pc = "start_wait"
  /\ Sending(s.startG)
  /\ Upd(p, Return([s EXCEPT !.startG = "exit", !.newOpError = NoOpError],
                   "start_ret",
                   StartReturns(s.startG, s.ctxErr, s.newOpError)))
  /\ UNCHANGED <<imgVars, mainVars, sigVars, bus>>

\* the ctx.Done() case of Start's select, lines 491-495
Start_ReturnCtx(p) ==
  LET s == proc[p] IN
  /\ mainPc = "run"
  /\ s.pc = "start_wait"
  /\ s.ctxErr # "nil"
  /\ Upd(p, Return(s, "start_ret", StartReturns("ctx", s.ctxErr, s.newOpError)))
  /\ UNCHANGED <<imgVars, mainVars, sigVars, bus>>

\* ---- GCEInstance.UploadScript
InUpload(s) == s.pc = "upload_wait"

\* uploadScriptAttempt, lines 586-614: the error it returns and whether build.sh
\* exists afterwards, for the step at which it ends ("ssh" and "sftp" fail to
\* connect, "create" and "write" fail on the file, "nil" writes the script);
\* an error is ErrStaleVM or the one of the library call that failed
AttemptErr(step, exists) ==
  CASE step \in {"ssh", "sftp"} -> "ioErr"
    [] exists -> "ErrStaleVM"
    [] step \in {"create", "write"} -> "ioErr"
    [] OTHER -> "nil"

AttemptExists(step, exists) ==
  exists \/ step \in {"write", "nil"}

\* one attempt of the goroutine's loop, lines 570-573, while UploadScript waits;
\* only a running VM is reached
Upload_Attempt(p) ==
  LET s == proc[p] IN
  /\ mainPc = "run"
  /\ InUpload(s)
  /\ s.upG = "attempt"
  /\ \E step \in {"ssh", "sftp", "create", "write", "nil"} :
       LET err == AttemptErr(step, s.fileExists) IN
       Upd(p, [s EXCEPT !.attemptErr = err,
                        !.fileExists = AttemptExists(step, @),
                        !.upG = IF err = "nil" THEN "send" ELSE "assign",
                        !.staleFound = @ \/ err = "ErrStaleVM"])
  /\ UNCHANGED <<imgVars, mainVars, sigVars, bus>>

\* uploadErr = err, line 574, while UploadScript waits
Upload_Assign(p) ==
  LET s == proc[p] IN
  /\ mainPc = "run"
  /\ InUpload(s)
  /\ s.upG = "assign"
  /\ Upd(p, [s EXCEPT !.uploadErr = s.attemptErr, !.attemptErr = "nil",
                      !.upG = "attempt"])
  /\ UNCHANGED <<imgVars, mainVars, sigVars, bus>>

\* the goroutine's loop once UploadScript has returned, lines 569-575: nothing
\* reads uploadErr any more, so a turn of the loop is one step; an attempt that
\* succeeds leaves the goroutine blocked on its send for ever
Upload_Leaked(p) ==
  LET s == proc[p] IN
  /\ mainPc = "run"
  /\ ~InUpload(s)
  /\ s.upG = "attempt"
  /\ \E step \in {"ssh", "sftp", "create", "write", "nil"} :
       LET err == AttemptErr(step, s.fileExists) IN
       Upd(p, [s EXCEPT !.fileExists = AttemptExists(step, @),
                        !.upG = IF err = "nil" THEN "send" ELSE "attempt"])
  /\ UNCHANGED <<imgVars, mainVars, sigVars, bus>>

\* UploadScript returns: the goroutine's variables are its own from here on,
\* and a pending assignment is one more turn of its loop
UploadReturn(s, err) ==
  Return([s EXCEPT !.attemptErr = "nil", !.uploadErr = "nil",
                   !.upG = IF @ = "assign" THEN "attempt" ELSE @],
         "upload_ret", UploadResult(err))

\* UploadScript's select, lines 578-583: uploadedChan <- true is received
Upload_Recv(p) ==
  LET s == proc[p] IN
  /\ mainPc = "run"
  /\ s.pc = "upload_wait"
  /\ s.upG = "send"
  /\ Upd(p, UploadReturn([s EXCEPT !.upG = "assign"], "nil"))
  /\ UNCHANGED <<imgVars, mainVars, sigVars, bus>>

\* return uploadErr, lines 581-582: the variable is read as the goroutine has
\* left it at that moment
Upload_ReturnCtx(p) ==
  LET s == proc[p] IN
  /\ mainPc = "run"
  /\ s.pc = "upload_wait"
  /\ s.ctxErr # "nil"
  /\ Upd(p, UploadReturn(s, s.uploadErr))
  /\ UNCHANGED <<imgVars, mainVars, sigVars, bus>>

\* ---- GCEInstance.RunScript
\* uint8(err.ExitStatus())
Uint8(n) == n % 256

\* a RunScript that takes an exit status for a failure to run
RunReturnsExitAsError(kind, status) ==
  RunResult(FALSE, 0, "run", [kind |-> kind, status |-> status])

\* what RunScript returns for what happened, lines 617-647: kind "ssh",
\* "session" or "pty" is a failure before the script runs, "lost" the loss of the
\* session, "exit" the script's exit with that status
RunReturns(kind, status) ==
  LET cause == [kind |-> kind, status |-> status] IN
  IF kind # "exit" THEN RunResult(FALSE, 0, kind, cause)
  ELSE IF status = 0 THEN RunResult(TRUE, 0, "nil", cause)
  ELSE RunResult(TRUE, Uint8(status), "nil", cause)

\* sshClient, NewSession and RequestPty, lines 617-632
Run_Connect(p) ==
  LET s == proc[p] IN
  /\ mainPc = "run"
  /\ s.pc = "run_connect"
  /\ \/ \E kind \in {"ssh", "pty"} :
          Upd(p, Return(s, "run_ret", RunReturns(kind, 0)))
     \/ Upd(p, [s EXCEPT !.pc = "run_blocked"])
  /\ UNCHANGED <<imgVars, mainVars, sigVars, bus>>

\* session.Run returns, lines 637-647: the script exits or the session is lost
Run_Finish(p) ==
  LET s == proc[p] IN
  /\ mainPc = "run"
  /\ s.pc = "run_blocked"
  /\ \/ \E status \in ExitStatuses :
          Upd(p, Return(s, "run_ret", RunReturns("exit", status)))
     \/ Upd(p, Return(s, "run_ret", RunReturns("lost", 0)))
  /\ UNCHANGED <<imgVars, mainVars, sigVars, bus>>

\* ---- GCEInstance.Stop
\* Instances.Delete and the start of the poll goroutine, lines 651-675: the
\* request fails, and Stop returns its error, or the control plane accepts it,
\* which it does only for a VM it still has (the Delete of a VM that is gone is
\* answered with an error, "not found")
Stop_Delete(p) ==
  LET s == proc[p] IN
  /\ mainPc = "run"
  /\ s.pc = "stop_delete"
  /\ \/ Upd(p, Return(s, "stop_ret", StopResult("delete")))
     \/ /\ s.vm \in {"running", "deleting"}
        /\ Upd(p, [s EXCEPT !.vm = "deleting", !.stopG = "poll", !.pc = "stop_wait"])
  /\ UNCHANGED <<imgVars, mainVars, sigVars, bus>>

\* the turn of Stop's poll goroutine that ends its loop, lines 657-675
Stop_Poll(p) ==
  LET s == proc[p] IN
  /\ mainPc = "run"
  /\ s.stopG = "poll"
  /\ \E g \in PollOutcomes :
       Upd(p, [s EXCEPT !.stopG = g,
                        !.vm = CASE g = "send_ok" -> "deleted"
                                 [] g = "send_operr" -> "running"
                                 [] OTHER -> @])
  /\ UNCHANGED <<imgVars, mainVars, sigVars, bus>>

\* Stop's select, lines 677-682: the goroutine's send is received
Stop_Recv(p) ==
  LET s == proc[p] IN
  /\ mainPc = "run"
  /\ s.pc = "stop_wait"
  /\ Sending(s.stopG)
  /\ Upd(p, Return([s EXCEPT !.stopG = "exit"], "stop_ret",
                   StopResult(SentErr(s.stopG))))
  /\ UNCHANGED <<imgVars, mainVars, sigVars, bus>>

\* the ctx.Done() case of Stop's select, lines 680-681
Stop_ReturnCtx(p) ==
  LET s == proc[p] IN
  /\ mainPc = "run"
  /\ s.pc = "stop_wait"
  /\ s.ctxErr # "nil"
  /\ Upd(p, Return(s, "stop_ret", StopResult(s.ctxErr)))
  /\ UNCHANGED <<imgVars, mainVars, sigVars, bus>>

(* --------------------------- the specification ------------------------- *)
ImageOff ==
  /\ reqLang = <<1>>
  /\ listFails = {}
  /\ imgPc = "off"
  /\ imgRes = ImgResult(NoImage, "nil")

\* the worker at its start, with that many messages on the queue
WorkerInit(jobs) ==
  /\ images = WorkerImages
  /\ languageMappings = WorkerMappings
  /\ defaultLanguage = WorkerDefaultLanguage
  /\ ImageOff
  /\ mainPc = "dial"
  /\ startupErr = "none"
  /\ exitCode = "none"
  /\ sigBuf = 0
  /\ sigG = "none"
  /\ shutdown = FALSE
  /\ shutdownCalls = 0
  /\ bus = jobs
  /\ proc = [p \in Procs |-> NoJob("unspawned")]

Init == WorkerInit(MaxJobs)

\* the steps of processor p's own task
ProcessorStep(p) ==
  \/ Processor_Pull(p)
  \/ Processor_Exit(p)
  \/ Processor_Decode(p)
  \/ Start_ImageLookup(p)
  \/ Start_Insert(p)
  \/ Start_Recv(p)
  \/ Start_ReturnCtx(p)
  \/ Processor_AfterStart(p)
  \/ Upload_Recv(p)
  \/ Upload_ReturnCtx(p)
  \/ Processor_AfterUpload(p)
  \/ Run_Connect(p)
  \/ Processor_AfterRun(p)
  \/ Processor_Report(p)
  \/ Stop_Delete(p)
  \/ Stop_Recv(p)
  \/ Stop_ReturnCtx(p)
  \/ Processor_AfterStop(p)
  \/ Processor_Loop(p)

\* the steps of the goroutines p's backend calls start
GoroutineStep(p) ==
  \/ Start_Poll(p)
  \/ Upload_Attempt(p)
  \/ Upload_Assign(p)
  \/ Upload_Leaked(p)
  \/ Stop_Poll(p)

\* what the world does to p's job: the script ends, the context is done
EnvStep(p) ==
  \/ Run_Finish(p)
  \/ CtxDone(p)

MainStep ==
  \/ runWorker_Dial
  \/ runWorker_NewProvider
  \/ runWorker_PoolRun
  \/ runWorker_PoolReturn
  \/ runWorker_Close
  \/ SignalHandler

Next ==
  \/ MainStep
  \/ Signal
  \/ \E p \in Procs : ProcessorStep(p) \/ GoroutineStep(p) \/ EnvStep(p)

Spec == Init /\ [][Next]_vars

\* the scheduler runs every task that can take a step; the script and the
\* world owe nothing
Fairness ==
  /\ WF_vars(MainStep)
  /\ \A p \in Procs : WF_vars(ProcessorStep(p))

\* the worker with one message to process, under that scheduler
FairInit == WorkerInit(1)

FairSpec == FairInit /\ [][Next]_vars /\ Fairness

(* --------------------- image selection on its own ---------------------- *)
ImageInit ==
  /\ images \in Catalogues
  /\ languageMappings \in Mappings
  /\ defaultLanguage \in Languages
  /\ reqLang \in Languages
  /\ listFails = {}
  /\ imgPc = "input"
  /\ imgRes = ImgResult(NoImage, "nil")
  /\ mainPc = "off"
  /\ startupErr = "none"
  /\ exitCode = "none"
  /\ sigBuf = 0
  /\ sigG = "none"
  /\ shutdown = FALSE
  /\ shutdownCalls = 0
  /\ bus = 0
  /\ proc = [p \in Procs |-> NoJob("unspawned")]

\* one call of imageForLanguage(reqLang), its List call failing or not
LookupImage ==
  /\ imgPc = "input"
  /\ \E fails \in SUBSET {1} :
       /\ listFails' = fails
       /\ imgRes' = imageForLanguage(images, reqLang, 1 \in fails)
  /\ imgPc' = "looked"
  /\ UNCHANGED <<images, languageMappings, defaultLanguage, reqLang,
                 mainVars, sigVars, bus, proc>>

\* the candidate loop of Start, any of its List calls failing
SelectImage ==
  /\ imgPc = "input"
  /\ \E fails \in SUBSET (1..3) :
       /\ listFails' = fails
       /\ imgRes' = StartSelectImage(images, reqLang, languageMappings,
                                     defaultLanguage, fails)
  /\ imgPc' = "selected"
  /\ UNCHANGED <<images, languageMappings, defaultLanguage, reqLang,
                 mainVars, sigVars, bus, proc>>

ImageNext == LookupImage \/ SelectImage

SpecImage == ImageInit /\ [][ImageNext]_vars

(* ------------------- Stop called again on an Instance ------------------ *)
\* an Instance that Start has returned, at its holder's first call of Stop
StopInit ==
  /\ images = WorkerImages
  /\ languageMappings = WorkerMappings
  /\ defaultLanguage = WorkerDefaultLanguage
  /\ ImageOff
  /\ mainPc = "run"
  /\ startupErr = "none"
  /\ exitCode = "none"
  /\ sigBuf = 0
  /\ sigG = "waiting"
  /\ shutdown = FALSE
  /\ shutdownCalls = 0
  /\ bus = 0
  /\ proc = [p \in Procs |->
               IF p = 1 THEN [NoJob("stop_delete") EXCEPT !.inst = TRUE,
                                                          !.vm = "running",
                                                          !.stopCalls = 1]
               ELSE NoJob("unspawned")]

\* the holder of the Instance calls Stop again, with a fresh context, once the
\* call before has returned and its goroutine is gone
Stop_Again(p) ==
  LET s == proc[p] IN
  /\ mainPc = "run"
  /\ s.pc = "stop_ret"
  /\ s.stopG \in {"none", "exit"}
  /\ s.stopCalls < MaxStops
  /\ Upd(p, [s EXCEPT !.pc = "stop_delete", !.ret = NoResult, !.stopG = "none",
                      !.stopCalls = @ + 1,
                      !.stopped = @ \/ s.ret.err = "nil"])
  /\ UNCHANGED <<imgVars, mainVars, sigVars, bus>>

StopNext ==
  \E p \in Procs :
    \/ Stop_Delete(p)
    \/ Stop_Poll(p)
    \/ Stop_Recv(p)
    \/ Stop_ReturnCtx(p)
    \/ Stop_Again(p)
    \/ CtxDone(p)

SpecStop == StopInit /\ [][StopNext]_vars

(* ------------------------------ the claims ----------------------------- *)
PhasesOfRun == {"run_connect", "run_blocked", "run_ret", "report"}
Settlements == {"ack", "requeue", "drop"}

\* C1: every job's message gets exactly one of ack, nack-with-requeue and
\* nack-without-requeue: never two at any moment of the job, one from the
\* moment its Instance is stopped on, and exactly one when the job is over.
C1_OneSettlement ==
  \A p \in Procs :
    LET s == proc[p] IN
    /\ Len(s.settle) <= 1
    /\ \A i \in 1..Len(s.settle) : s.settle[i].how \in Settlements
    /\ s.pc \in {"stop_delete", "stop_wait", "stop_ret", "done"} => Len(s.settle) = 1

\* a job is over after the failure of its upload or of its run, its message
\* requeued and nothing else
C1_Witness ==
  \E p \in Procs :
    /\ proc[p].pc = "done"
    /\ proc[p].inst
    /\ Len(proc[p].settle) = 1
    /\ proc[p].settle[1].how = "requeue"

\* C2: Stop is called exactly once on the Instance of a job whose Start
\* returned one, whatever way the job ends, and never for a job whose Start
\* returned an error.
C2_OneStop ==
  \A p \in Procs :
    LET s == proc[p] IN
    /\ s.stopCalls <= 1
    /\ ~s.inst => s.stopCalls = 0
    /\ s.pc = "done" /\ s.inst => s.stopCalls = 1
    /\ s.pc \in {"stop_delete", "stop_wait", "stop_ret"} => s.inst /\ s.stopCalls = 1

\* a job is over whose Stop was given up when its context was done, the VM
\* still being deleted: Stop was called once on its Instance
C2_Witness ==
  \E p \in Procs :
    /\ proc[p].pc = "done"
    /\ proc[p].inst
    /\ proc[p].stopCalls = 1
    /\ proc[p].vm = "deleting"

\* C3: once the signal goroutine has started the graceful shutdown, no
\* processor pulls a message and no message leaves the queue; the step that
\* starts it changes no job (a job in flight goes on to its own settlement) and
\* takes nothing from the queue.
C3_GracefulShutdown ==
  [][/\ sigG = "done" =>
          /\ bus' >= bus
          /\ \A p \in Procs : proc'[p].pc = "received" => proc[p].pc = "received"
          /\ sigG' = "done" /\ shutdown'
     /\ sigG = "waiting" /\ sigG' = "done" =>
          /\ proc' = proc
          /\ bus' = bus]_vars

\* a job in flight at the shutdown was acked after it while a message waited
C3_Witness ==
  /\ sigG = "done"
  /\ bus > 0
  /\ \E p \in Procs :
       /\ proc[p].pc = "done"
       /\ proc[p].settle = <<[how |-> "ack", drain |-> TRUE]>>

\* C4: when an upload attempt of a job finds build.sh already in the VM,
\* UploadScript returns an error (the job is requeued and its Instance
\* stopped) and the job never gets to RunScript nor to the report.
C4_StaleNeverRuns ==
  \A p \in Procs :
    proc[p].staleFound =>
      /\ proc[p].pc \notin PhasesOfRun
      /\ proc[p].pc = "upload_ret" => proc[p].ret.err # "nil"

\* C5: when the job's context is done while the processor is blocked in
\* RunScript, RunScript returns.
C5_RunScriptHonoursCtx ==
  \A p \in Procs :
    (proc[p].pc = "run_blocked" /\ proc[p].ctxErr # "nil")
      ~> (proc[p].pc # "run_blocked")

\* C6: the process ends with 0 exactly when it started up; when the dial or
\* the provider fails it ends with a non-zero code, the pool never run.
C6_ExitCodes ==
  mainPc = "exited" =>
    /\ exitCode = 0 <=> startupErr = "none"
    /\ startupErr # "none" => \A p \in Procs : proc[p].pc = "unspawned"

\* C7: what RunScript returns: Completed with the script's exit status s and
\* no error for s in 0..255, not Completed with an error when the invocation
\* failed without an exit status, and never Completed with an error nor not
\* Completed without one.
C7_RunResults ==
  \A p \in Procs :
    proc[p].pc = "run_ret" =>
      LET r == proc[p].ret IN
      /\ r.cause.kind = "exit" /\ r.cause.status \in 0..255 =>
           r.Completed /\ r.ExitCode = r.cause.status /\ r.err = "nil"
      /\ r.cause.kind # "exit" => ~r.Completed /\ r.err # "nil"
      /\ r.Completed <=> r.err = "nil"

\* RunScript has returned the non-zero exit status of a script
C7_Witness ==
  \E p \in Procs :
    /\ proc[p].pc = "run_ret"
    /\ proc[p].ret.cause = [kind |-> "exit", status |-> 1]
    /\ proc[p].ret.Completed
    /\ proc[p].ret.ExitCode = 1

\* what the claims say of images, said of sets: the names a language matches,
\* the greatest of a set of names, and the image of the first candidate of an
\* order whose lookup succeeds
MatchesLanguage(name, language) ==
  /\ Len(name) > Len(language)
  /\ \A i \in 1..Len(language) : name[i] = language[i]
Matching(language) == {n \in images : MatchesLanguage(n, language)}
IsGreatest(name, S) == name \in S /\ \A m \in S : m = name \/ LexLess(m, name)
Yields(order, i) == i \notin listFails /\ Matching(order[i]) # {}
SelectsInOrder(order) ==
  IF \E i \in 1..Len(order) : Yields(order, i)
  THEN LET first == CHOOSE i \in 1..Len(order) :
                      Yields(order, i) /\ \A j \in 1..(i - 1) : ~Yields(order, j)
       IN imgRes.err = "nil" /\ IsGreatest(imgRes.image, Matching(order[first]))
  ELSE imgRes.err # "nil" /\ imgRes.image = NoImage
MappingOf(lang) ==
  IF HasMapping(languageMappings, lang) THEN <<Mapped(languageMappings, lang)>>
  ELSE <<>>

\* C8: Start takes the image of the first candidate that has one,
\* trying languageMappings[lang] when there is one, then lang, then the
\* default language, and returns an error when no candidate has an image.
C8_MappingFirst ==
  imgPc = "selected" /\ listFails = {} =>
    SelectsInOrder(MappingOf(reqLang) \o <<reqLang, defaultLanguage>>)

\* C9: imageForLanguage returns the lexicographically greatest of the names
\* that match the language when there is one, and an error when there is none.
C9_GreatestImage ==
  imgPc = "looked" /\ 1 \notin listFails =>
    IF Matching(reqLang) = {} THEN imgRes.err # "nil" /\ imgRes.image = NoImage
    ELSE imgRes.err = "nil" /\ IsGreatest(imgRes.image, Matching(reqLang))

\* two names match, one a prefix of the other, and the longer one is returned
C9_Witness ==
  /\ imgPc = "looked"
  /\ 1 \notin listFails
  /\ Cardinality(Matching(reqLang)) = 2
  /\ \E n \in Matching(reqLang) : n # imgRes.image /\ HasPrefix(imgRes.image, n)

C11_StopIdempotent ==
  \A p \in Procs :
    LET s == proc[p] IN
    s.pc = "stop_ret" =>
      /\ s.ret.err = "nil" => s.vm = "deleted"
      /\ s.stopped => s.vm = "deleted" /\ s.ret.err = "nil"

\* a processor the pool has spawned and that has not exited
Active(s) == s.pc \notin {"unspawned", "exited"}
\* a processor with a job in flight
InFlight(s) == Active(s) /\ s.pc # "idle"

\* C12: at no moment are more than PoolSize processors active, and so never
\* more than PoolSize jobs in flight.
C12_PoolBound ==
  /\ Cardinality({p \in Procs : Active(proc[p])}) <= PoolSize
  /\ Cardinality({p \in Procs : InFlight(proc[p])}) <= PoolSize

C12_Witness ==
  /\ Cardinality({p \in Procs : InFlight(proc[p])}) = PoolSize
  /\ \E p \in Procs : proc[p].pc = "run_blocked"

\* C13: Start returns an error exactly when it returns no Instance, and the
\* processor's only step on such a return ends the job with the message
\* requeued and nothing else done to it: no ack, no Instance held, no Stop.
C13_StartErrorRequeues ==
  /\ [](\A p \in Procs :
          LET s == proc[p] IN
          s.pc = "start_ret" =>
            /\ s.ret.err # "nil" <=> ~s.ret.inst
            /\ ~s.inst /\ s.stopCalls = 0 /\ s.settle = <<>>)
  /\ [][\A p \in Procs :
          LET s == proc[p]
              t == proc'[p]
          IN s.pc = "start_ret" /\ s.ret.err # "nil" /\ t.pc # s.pc =>
               /\ t.pc = "done"
               /\ ~t.inst /\ t.stopCalls = 0
               /\ Len(t.settle) = 1 /\ t.settle[1].how = "requeue"]_vars

C13_Witness ==
  \E p \in Procs :
    LET s == proc[p] IN
    /\ s.pc = "done"
    /\ ~s.inst /\ s.stopCalls = 0
    /\ Len(s.settle) = 1 /\ s.settle[1].how = "requeue"

\* C14: GracefulShutdown is called at most once, by the signal goroutine on
\* the first interrupt; once it has been called, further interrupts change
\* nothing but the content of signalChan; and no step of signal handling
\* touches a job: its context, its backend call and its message stay as
\* they are.
C14_SignalsOnce ==
  /\ [](/\ shutdownCalls <= 1
        /\ shutdown <=> shutdownCalls = 1
        /\ sigG = "done" <=> shutdownCalls = 1)
  /\ [][sigG = "done" => UNCHANGED <<sigG, shutdown, shutdownCalls>>]_vars
  /\ [][sigBuf' # sigBuf \/ shutdown' # shutdown \/ shutdownCalls' # shutdownCalls
          => UNCHANGED <<proc, bus>>]_vars

C14_Witness ==
  /\ shutdownCalls = 1
  /\ sigG = "done"
  /\ sigBuf = 1
  /\ \E p \in Procs : InCall(proc[p]) /\ proc[p].ctxErr = "nil"

\* C15: once UploadScript has returned, its goroutine makes no further upload
\* attempt: none is under way or still to come while the processor looks at
\* the result, while RunScript runs or while the result is reported.
C15_NoUploadAfterReturn ==
  \A p \in Procs :
    LET s == proc[p] IN
    s.pc \in {"upload_ret"} \cup PhasesOfRun => s.upG # "attempt"

CtxCauses == {"Canceled", "DeadlineExceeded"}

\* C16: when Start or Stop has returned because its context was done, its poll
\* goroutine is not left blocked on the send of its result, which nothing will
\* ever receive: it can still come to its end.
C16_PollLoopsCancellable ==
  \A p \in Procs :
    LET s == proc[p] IN
    /\ s.pc = "start_ret" /\ s.ret.err \in CtxCauses => ~Sending(s.startG)
    /\ s.pc = "stop_ret" /\ s.ret.err \in CtxCauses => ~Sending(s.stopG)

\* C17: what Start returns when its select receives from the poll goroutine:
\* the error of a failed poll request as it is; for an operation DONE with
\* an Error, no Instance and an operation error that carries every sub-error
\* of that Error; an Instance with no error for an operation DONE without
\* Error. However Start returns, it returns an Instance only when the
\* operation was DONE without Error.
C17_StartPollResults ==
  [][\A p \in Procs :
       LET s == proc[p]
           t == proc'[p]
       IN s.pc = "start_wait" /\ t.pc = "start_ret" =>
            /\ t.ret.inst => s.startG = "send_ok" /\ t.ret.err = "nil"
            /\ t.ret.err \notin CtxCauses =>
                 CASE s.startG = "send_err" -> t.ret = StartResult(FALSE, "poll")
                   [] s.startG = "send_operr" ->
                        /\ ~t.ret.inst
                        /\ t.ret.err = "operr"
                        /\ t.ret.opErr = s.newOpError
                        /\ s.newOpError \in OpErrors
                   [] s.startG = "send_ok" -> t.ret = StartResult(TRUE, "nil")
                   [] OTHER -> FALSE]_vars

C17_Witness ==
  \E p \in Procs :
    LET s == proc[p] IN
    /\ s.pc = "start_ret"
    /\ s.ret.err = "operr"
    /\ Len(s.ret.opErr) = MaxSubErrors
    /\ s.startG = "exit"

\* C18: UploadScript returns nil only when an attempt of its goroutine has
\* succeeded, the script created and written: a return of nil finds the
\* goroutine with that success to announce.
C18_NilOnlyAfterSuccess ==
  [][\A p \in Procs :
       LET s == proc[p]
           t == proc'[p]
       IN s.pc = "upload_wait" /\ t.pc = "upload_ret" /\ t.ret.err = "nil"
            => s.upG = "send"]_vars

\* C19: UploadScript returns ErrStaleVM only for a VM in which build.sh
\* existed when the call began; the file an attempt of the call has created
\* does not make the call report a fresh VM as stale.
C19_StaleOnlyIfPreExisting ==
  \A p \in Procs :
    LET s == proc[p] IN
    s.pc = "upload_ret" /\ s.ret.err = "ErrStaleVM" => s.staleVM

\* C20: a VM whose insert was accepted has an owner: when the job is over,
\* Start has returned it as an Instance or a delete has been issued for it,
\* and it is not left running without Stop ever having been called.
C20_NoOrphanVM ==
  \A p \in Procs :
    LET s == proc[p] IN
    s.pc = "done" =>
      /\ s.vm # "none" => s.inst \/ s.vm \in {"deleting", "deleted"}
      /\ s.vm = "running" => s.stopCalls >= 1

=============================================================================
